---- MODULE Spec2Model ----
(***************************************************************************)
(* A model of pagong's filesystem-action planner and executor              *)
(* (src/src/blog.rs) and of its directory scanner (src/src/main.rs).       *)
(*                                                                         *)
(* A file name is a sequence of one-character strings, a path is a         *)
(* sequence of file names, and a text is a sequence of tokens.  A          *)
(* filesystem is a function from the paths that exist to their nodes; the  *)
(* empty path (the working directory) always exists and is a directory.    *)
(***************************************************************************)
EXTENDS Integers, Sequences, FiniteSets, TLC

VARIABLES
    fs,         \* the filesystem
    fs0,        \* the filesystem when the current run of the executor began
    actions,    \* the action list handed to execute_fs_actions
    pc,         \* index of the action the executor's loop is at
    result,     \* "idle", "running", "ok" (Ok(())) or "err" (Err(_))
    log,        \* per loop iteration entered: "ok" or "err" of its arm
    blog,       \* the Blog (posts, header, footer) being generated
    root,       \* the destination root given to Blog::generate
    run,        \* how many times Blog::generate has been started
    fs1,        \* the filesystem after the first generate returned Ok
    phase,      \* where Scan::new is: "idle", "loop", "dir", "done", "panic"
    scan,       \* the Scan being built
    templates,  \* Scan::new's set of the template paths the documents name
    pending,    \* Scan::new's worklist of directories
    src,        \* the directory being read
    todo,       \* the entries of src that read_dir has yet to give
    visited,    \* the directories Scan::new has called read_dir on, in order
    mdpc,       \* where MdFile::new is: "idle", "start", "date", "updated",
                \* "build", "done" or "panic"
    mdpath,     \* the path given to MdFile::new
    mdtext,     \* the contents of the file at that path
    mdfile,     \* the fields of the MdFile computed so far
    stat,       \* what fs::metadata and its times give for the file
    today,      \* the date chrono::Local::today() gives
    consulted,  \* for which fields parse_opt_date has called fs::metadata
    loadpc,     \* where Blog::from_source_dir is: "idle", "loop", "done", "err"
    children    \* the children of the directory read_dir has yet to give

execVars == <<fs, fs0, actions, pc, result, log>>
genVars == <<blog, root, run, fs1>>
scanVars == <<phase, scan, templates, pending, src, todo, visited>>
mdVars == <<mdpc, mdpath, mdtext, mdfile, stat, today, consulted>>
loadVars == <<loadpc, children>>
vars == <<fs, fs0, actions, pc, result, log, blog, root, run, fs1,
          phase, scan, templates, pending, src, todo, visited,
          mdpc, mdpath, mdtext, mdfile, stat, today, consulted,
          loadpc, children>>

----------------------------------------------------------------------------
(* Bounds *)

MaxActions == 2

----------------------------------------------------------------------------
(* Paths (std::path) *)

Name(s) == <<s>>

IsPrefix(p, q) == Len(p) <= Len(q) /\ SubSeq(q, 1, Len(p)) = p

IsProperPrefix(p, q) == Len(p) < Len(q) /\ SubSeq(q, 1, Len(p)) = p

Parent(p) == SubSeq(p, 1, Len(p) - 1)

\* Path::join with a single, relative component.
Join(p, name) == Append(p, name)

\* Path::file_name: the last component.
FileName(p) == p[Len(p)]

\* The positions of '.' in a name.
Dots(name) == {i \in 1..Len(name) : name[i] = "."}

LastDot(name) == CHOOSE i \in Dots(name) : \A j \in Dots(name) : j <= i

\* Path::file_stem: the name up to its last '.', the whole name when it has
\* no '.' or only a leading one.
FileStem(p) ==
    LET name == FileName(p) IN
    IF Dots(name) = {} \/ LastDot(name) = 1
    THEN name
    ELSE SubSeq(name, 1, LastDot(name) - 1)

----------------------------------------------------------------------------
(* The filesystem (std::fs) *)

DirNode == [kind |-> "dir", content |-> <<>>]

FileNode(c) == [kind |-> "file", content |-> c]

Dot == <<".">>

DotDot == <<".", ".">>

\* The node at a key (a path of plain names): the working directory is the
\* empty key.
DirAt(f, k) == k = <<>> \/ (k \in DOMAIN f /\ f[k].kind = "dir")

FileAt(f, k) == k \in DOMAIN f /\ f[k].kind = "file"

\* Path resolution, component after component: a component is looked up in
\* a directory only; `.` stays in it and `..` leaves it for its parent.  ok
\* says that the walk got through, at is where it ended (which need not
\* exist when the last component is a plain name).
RECURSIVE Walk(_, _, _)
Walk(f, p, n) ==
    IF n = 0 THEN [ok |-> TRUE, at |-> <<>>]
    ELSE LET w == Walk(f, p, n - 1) IN
         IF ~w.ok \/ ~DirAt(f, w.at) THEN [ok |-> FALSE, at |-> w.at]
         ELSE IF p[n] = Dot THEN w
         ELSE IF p[n] = DotDot
              THEN [ok |-> TRUE, at |-> SubSeq(w.at, 1, Len(w.at) - 1)]
         ELSE [ok |-> TRUE, at |-> Append(w.at, p[n])]

Resolve(f, p) == Walk(f, p, Len(p))

\* Path::exists, Path::is_dir, Path::is_file.
Exists(f, p) ==
    LET r == Resolve(f, p) IN r.ok /\ (r.at = <<>> \/ r.at \in DOMAIN f)

IsDir(f, p) == LET r == Resolve(f, p) IN r.ok /\ DirAt(f, r.at)

IsFile(f, p) == LET r == Resolve(f, p) IN r.ok /\ FileAt(f, r.at)

Put(f, k, node) == [q \in DOMAIN f \cup {k} |-> IF q = k THEN node ELSE f[q]]

Without(f, gone) == [q \in DOMAIN f \ gone |-> f[q]]

Below(f, k) == {q \in DOMAIN f : IsPrefix(k, q)}

\* rmdir refuses the working directory and a path that ends in `.` or `..`.
Removable(p, k) == k # <<>> /\ p[Len(p)] \notin {Dot, DotDot}

IoOk(f) == [fs |-> f, err |-> FALSE]

IoErr(f) == [fs |-> f, err |-> TRUE]

\* fs::copy: the source is opened first and must be a regular file, then the
\* destination is opened with create and truncate, then the bytes are copied
\* (a file copied onto itself is truncated before it is read).
FsCopy(f, source, dest) ==
    LET s == Resolve(f, source)
        d == Resolve(f, dest)
    IN  IF ~(s.ok /\ FileAt(f, s.at)) THEN IoErr(f)
        ELSE IF ~d.ok \/ DirAt(f, d.at) THEN IoErr(f)
        ELSE IoOk(Put(f, d.at,
                      FileNode(IF s.at = d.at THEN <<>> ELSE f[s.at].content)))

\* fs::remove_dir_all: fails, changing nothing, on a path that does not exist
\* or is not a directory; else removes all that is below the directory and
\* then the directory itself with rmdir, whose refusal is the call's error.
FsRemoveDirAll(f, p) ==
    LET r == Resolve(f, p) IN
    IF ~(r.ok /\ DirAt(f, r.at)) THEN IoErr(f)
    ELSE IF Removable(p, r.at) THEN IoOk(Without(f, Below(f, r.at)))
    ELSE IoErr(Without(f, Below(f, r.at) \ {r.at}))

\* fs::remove_dir: rmdir, and the directory must be empty.
FsRemoveDir(f, p) ==
    LET r == Resolve(f, p) IN
    IF r.ok /\ DirAt(f, r.at) /\ Below(f, r.at) = {r.at} /\ Removable(p, r.at)
    THEN IoOk(Without(f, {r.at}))
    ELSE IoErr(f)

\* fs::create_dir: the path must not exist and its parent must be a
\* directory.
FsCreateDir(f, p) ==
    LET r == Resolve(f, p) IN
    IF r.ok /\ r.at # <<>> /\ r.at \notin DOMAIN f
    THEN IoOk(Put(f, r.at, DirNode))
    ELSE IoErr(f)

\* A write that appends to what the file held instead of truncating it.
FsWrite_Append(f, p, content) ==
    LET r == Resolve(f, p) IN
    IF r.ok /\ ~DirAt(f, r.at)
    THEN IoOk(Put(f, r.at,
                  FileNode((IF FileAt(f, r.at) THEN f[r.at].content ELSE <<>>)
                           \o content)))
    ELSE IoErr(f)

\* fs::write: create or truncate, then write; the path must not be a
\* directory and its parent must be one.
FsWrite(f, p, content) ==
    LET r == Resolve(f, p) IN
    IF r.ok /\ ~DirAt(f, r.at)
    THEN IoOk(Put(f, r.at, FileNode(content)))
    ELSE IoErr(f)

----------------------------------------------------------------------------
(* The Scan struct *)

NewScan(source, destination) ==
    [source |-> source, destination |-> destination, dirs_to_create |-> <<>>,
     files_to_copy |-> <<>>, css_files |-> <<>>, html_templates |-> {},
     md_files |-> <<>>]

\* No scan is being made.
NoScan ==
    /\ phase = "idle"
    /\ scan = NewScan(<<>>, <<>>)
    /\ templates = {}
    /\ pending = <<>>
    /\ src = <<>>
    /\ todo = {}
    /\ visited = <<>>

\* The locals MdFile::new starts from: no metadata, offset 0.
NewMd == [meta |-> [k \in {} |-> <<>>], md_offset |-> 0]

\* No MdFile is being made.
NoMd ==
    /\ mdpc = "idle"
    /\ mdpath = <<>>
    /\ mdtext = <<>>
    /\ mdfile = NewMd
    /\ stat = <<>>
    /\ today = <<>>
    /\ consulted = {}

\* No Blog is being read from a directory.
NoLoad ==
    /\ loadpc = "idle"
    /\ children = {}

----------------------------------------------------------------------------
(* FsAction and execute_fs_actions *)

Copy(source, dest) ==
    [type |-> "Copy", source |-> source, dest |-> dest]

DeleteDir(path, not_exists_ok, recursive) ==
    [type |-> "DeleteDir", path |-> path, not_exists_ok |-> not_exists_ok,
     recursive |-> recursive]

CreateDir(path, exists_ok) ==
    [type |-> "CreateDir", path |-> path, exists_ok |-> exists_ok]

WriteFile(path, content) ==
    [type |-> "WriteFile", path |-> path, content |-> content]

\* What one arm of the match leaves: the filesystem, whether an error arose
\* in it, and whether execute_fs_actions returned from it.
Arm(io, ret) == [fs |-> io.fs, err |-> io.err, ret |-> ret]

\* `fs::...(...)?`: an error returns from the function.
Try(io) == Arm(io, io.err)

\* The Copy arm with the `?` dropped: a failed copy is ignored.
ArmCopy_IgnoreError(a, f) == Arm(FsCopy(f, a.source, a.dest), FALSE)

ArmCopy(a, f) == Try(FsCopy(f, a.source, a.dest))

ArmDeleteDir(a, f) ==
    LET should_fail_if_not_exists == ~a.not_exists_ok IN
    IF should_fail_if_not_exists /\ ~Exists(f, a.path)
    THEN Arm(IoErr(f), TRUE)
    ELSE IF a.recursive
         THEN Try(FsRemoveDirAll(f, a.path))
         ELSE Try(FsRemoveDir(f, a.path))

\* The CreateDir arm without its is_dir check.
ArmCreateDir_NoDirCheck(a, f) ==
    IF a.exists_ok /\ Exists(f, a.path)
    THEN Arm(IoOk(f), TRUE)
    ELSE Try(FsCreateDir(f, a.path))

ArmCreateDir(a, f) ==
    IF a.exists_ok /\ Exists(f, a.path)
    THEN IF ~IsDir(f, a.path)
         THEN Arm(IoErr(f), TRUE)
         ELSE Arm(IoOk(f), TRUE)
    ELSE Try(FsCreateDir(f, a.path))

ArmWriteFile(a, f) ==
    IF Exists(f, a.path) /\ ~IsFile(f, a.path)
    THEN Arm(IoErr(f), TRUE)
    ELSE Try(FsWrite(f, a.path, a.content))

\* One iteration of the loop: the arm of the action at pc.
AtAction(type) ==
    /\ result = "running"
    /\ pc <= Len(actions)
    /\ actions[pc].type = type

Iterate(r) ==
    /\ fs' = r.fs
    /\ log' = Append(log, IF r.err THEN "err" ELSE "ok")
    /\ IF r.ret
       THEN /\ result' = (IF r.err THEN "err" ELSE "ok")
            /\ pc' = pc
       ELSE /\ result' = result
            /\ pc' = pc + 1
    /\ UNCHANGED <<fs0, actions>>
    /\ UNCHANGED genVars
    /\ UNCHANGED scanVars
    /\ UNCHANGED mdVars
    /\ UNCHANGED loadVars

ExecCopy == AtAction("Copy") /\ Iterate(ArmCopy(actions[pc], fs))

ExecDeleteDir == AtAction("DeleteDir") /\ Iterate(ArmDeleteDir(actions[pc], fs))

ExecCreateDir == AtAction("CreateDir") /\ Iterate(ArmCreateDir(actions[pc], fs))

ExecWriteFile == AtAction("WriteFile") /\ Iterate(ArmWriteFile(actions[pc], fs))

\* The loop is over: Ok(()).
ExecReturnOk ==
    /\ result = "running"
    /\ pc > Len(actions)
    /\ result' = "ok"
    /\ UNCHANGED <<fs, fs0, actions, pc, log>>
    /\ UNCHANGED genVars
    /\ UNCHANGED scanVars
    /\ UNCHANGED mdVars
    /\ UNCHANGED loadVars

Execute == ExecCopy \/ ExecDeleteDir \/ ExecCreateDir \/ ExecWriteFile \/ ExecReturnOk

----------------------------------------------------------------------------
(* The executor on any action list and any tree *)

Nd == Name("d")
Nf == Name("f")
Ns == Name("s")

\* The paths that may exist, and the paths of the actions: these, and d/.
PlainPaths == {<<Nd>>, <<Nd, Nf>>, <<Ns>>}

ExecPaths == PlainPaths \cup {<<Nd, Dot>>}

ExecContents == {<<"old">>, <<"new">>}

ExecNodes == {DirNode} \cup {FileNode(c) : c \in ExecContents}

\* The trees over a set of paths: what exists has a directory as its parent.
Trees(paths) ==
    {f \in UNION {[S -> ExecNodes] : S \in SUBSET paths} :
        \A p \in DOMAIN f : DirAt(f, Parent(p))}

ExecActions ==
    {Copy(s, d) : s \in ExecPaths, d \in ExecPaths}
    \cup {DeleteDir(p, n, r) : p \in ExecPaths, n \in BOOLEAN, r \in BOOLEAN}
    \cup {CreateDir(p, e) : p \in ExecPaths, e \in BOOLEAN}
    \cup {WriteFile(p, c) : p \in ExecPaths, c \in ExecContents}

ActionLists == UNION {[1..n -> ExecActions] : n \in 0..MaxActions}

NoBlog == [posts |-> <<>>, header |-> <<>>, footer |-> <<>>]

Init ==
    /\ fs \in Trees(PlainPaths)
    /\ fs0 = fs
    /\ actions \in ActionLists
    /\ pc = 1
    /\ result = "running"
    /\ log = <<>>
    /\ blog = NoBlog
    /\ root = <<>>
    /\ run = 0
    /\ fs1 = fs
    /\ NoScan
    /\ NoMd
    /\ NoLoad

Next == Execute

Spec == Init /\ [][Next]_vars

----------------------------------------------------------------------------
(* Blog::generate_actions and Blog::generate *)

HTML_START == <<"<!DOCTYPE html><html><head><meta charset=utf-8 /></head><body><main>">>

HTML_END == <<"</main></body>">>

N_index_html == <<"i", "n", "d", "e", "x", ".", "h", "t", "m", "l">>

\* Option<T>: None, Some(x), unwrap_or.
None == <<>>

Some(x) == <<x>>

UnwrapOr(opt, default) == IF opt = None THEN default ELSE opt[1]

\* Post::push_html: appends the post's markdown rendered to HTML.
PushHtml(post, text) == text \o <<"<p>">> \o post.markdown \o <<"</p>">>

\* A DeleteDir that is not recursive.
DeleteAction_NotRecursive(post_dir) == DeleteDir(post_dir, TRUE, FALSE)

DeleteAction(post_dir) == DeleteDir(post_dir, TRUE, TRUE)

CreateAction(post_dir) == CreateDir(post_dir, FALSE)

PostDir(post, r) == Join(r, FileStem(post.source))

\* A content with the footer before the body and the header after it.
FileContent_FooterFirst(b, post) ==
    HTML_START \o UnwrapOr(b.footer, <<>>)
        \o (<<"<p>">> \o post.markdown \o <<"</p>">>)
        \o UnwrapOr(b.header, <<>>) \o HTML_END

FileContent(b, post) ==
    LET c1 == <<>> \o HTML_START
        c2 == c1 \o UnwrapOr(b.header, <<>>)
        c3 == PushHtml(post, c2)
        c4 == c3 \o UnwrapOr(b.footer, <<>>)
    IN  c4 \o HTML_END

\* The copies of a post's assets, last asset first.
AssetCopies_Reversed(post, post_dir) ==
    [k \in 1..Len(post.assets) |->
        Copy(post.assets[Len(post.assets) + 1 - k],
             Join(post_dir, FileName(post.assets[Len(post.assets) + 1 - k])))]

AssetCopies(post, post_dir) ==
    [k \in 1..Len(post.assets) |->
        Copy(post.assets[k], Join(post_dir, FileName(post.assets[k])))]

\* The body of the loop over the posts: what one post pushes.
PostActions(b, post, r) ==
    LET post_dir == PostDir(post, r)
        post_path == Join(post_dir, N_index_html)
    IN  <<DeleteAction(post_dir),
          CreateAction(post_dir),
          WriteFile(post_path, FileContent(b, post))>>
        \o AssetCopies(post, post_dir)

RECURSIVE ActionsOfPosts(_, _, _)
ActionsOfPosts(b, n, r) ==
    IF n = 0 THEN <<>>
    ELSE ActionsOfPosts(b, n - 1, r) \o PostActions(b, b.posts[n], r)

GenerateActions(b, r) == ActionsOfPosts(b, Len(b.posts), r)

\* Blog::generate: plans, then hands the plan to execute_fs_actions.  It is
\* started on the tree as it is, and started again once it has returned Ok.
Generate ==
    /\ loadpc \in {"idle", "done"}
    /\ run < 2
    /\ result = (IF run = 0 THEN "idle" ELSE "ok")
    /\ run' = run + 1
    /\ actions' = GenerateActions(blog, root)
    /\ pc' = 1
    /\ result' = "running"
    /\ log' = <<>>
    /\ fs0' = fs
    /\ fs1' = fs
    /\ UNCHANGED <<fs, blog, root>>
    /\ UNCHANGED scanVars
    /\ UNCHANGED mdVars
    /\ UNCHANGED loadVars

----------------------------------------------------------------------------
(* Site models and destination trees for Blog::generate *)

MaxPosts == 2

MaxAssets == 2

N_content == <<"c", "o", "n", "t", "e", "n", "t">>
N_dist == <<"d", "i", "s", "t">>
N_site == <<"s", "i", "t", "e">>
N_a == <<"a">>
N_b == <<"b">>
N_a_md == <<"a", ".", "m", "d">>
N_a_txt == <<"a", ".", "t", "x", "t">>
N_b_md == <<"b", ".", "m", "d">>
N_dot_md == <<".", ".", "m", "d">>
N_i_png == <<"i", ".", "p", "n", "g">>
N_j_png == <<"j", ".", "p", "n", "g">>
N_old == <<"o", "l", "d">>
N_f == <<"f">>

SourceRoot == <<N_content>>

Roots == {<<N_dist>>, <<N_site, N_dist>>}

PostSources ==
    {Join(SourceRoot, n) : n \in {N_a_md, N_a_txt, N_b_md, N_dot_md}}

MarkdownOf(source) ==
    CASE FileName(source) = N_a_md -> <<"A test post">>
      [] FileName(source) = N_a_txt -> <<"Another post">>
      [] FileName(source) = N_b_md -> <<"A third post">>
      [] OTHER -> <<"A post named ..md">>

AssetPaths == {Join(SourceRoot, N_i_png), Join(SourceRoot, N_j_png)}

Distinct(seq) == \A i, j \in 1..Len(seq) : i # j => seq[i] # seq[j]

AssetLists ==
    {as \in UNION {[1..n -> AssetPaths] : n \in 0..MaxAssets} : Distinct(as)}

Posts ==
    {[source |-> s, markdown |-> MarkdownOf(s), assets |-> as] :
        s \in PostSources, as \in AssetLists}

\* A Blog: a list of posts (no two from the same source file), and the
\* optional header and footer.
Blogs ==
    {[posts |-> ps, header |-> h, footer |-> f] :
        ps \in {q \in UNION {[1..n -> Posts] : n \in 0..MaxPosts} :
                    \A i, j \in 1..Len(q) : i # j => q[i].source # q[j].source},
        h \in {None, Some(<<"<header/>">>)},
        f \in {None, Some(<<"<footer/>">>)}}

EmptyFs == [q \in {} |-> DirNode]

\* The source tree, and the directories above the destination root.
BaseTree(r) ==
    [q \in {SourceRoot} \cup AssetPaths
           \cup {SubSeq(r, 1, n) : n \in 1..(Len(r) - 1)} |->
        IF q \in AssetPaths THEN FileNode(<<"bytes of", FileName(q)>>)
        ELSE DirNode]

\* What may be at a post's directory before generation.
Leftovers(dir) ==
    {EmptyFs,
     dir :> FileNode(<<"old">>),
     dir :> DirNode,
     (dir :> DirNode) @@ (Join(dir, N_index_html) :> FileNode(<<"old">>))
        @@ (Join(dir, N_old) :> DirNode)
        @@ (Join(Join(dir, N_old), N_f) :> FileNode(<<"old">>))}

DestTrees(r) ==
    {BaseTree(r)}
    \cup {BaseTree(r) @@ (r :> DirNode) @@ x @@ y :
            x \in Leftovers(Join(r, N_a)), y \in Leftovers(Join(r, N_b))}

InitGen ==
    /\ root \in Roots
    /\ blog \in Blogs
    /\ fs \in DestTrees(root)
    /\ fs0 = fs
    /\ fs1 = fs
    /\ actions = <<>>
    /\ pc = 1
    /\ result = "idle"
    /\ log = <<>>
    /\ run = 0
    /\ NoScan
    /\ NoMd
    /\ NoLoad

NextGen == Generate \/ Execute

SpecGen == InitGen /\ [][NextGen]_vars

----------------------------------------------------------------------------
(* Strings (str): a string is a sequence of one-character strings, and     *)
(* offsets count from 0 as in the source.                                  *)

\* s[a..b]
Slice(s, a, b) == SubSeq(s, a + 1, b)

StartsAt(s, pat, i) ==
    i + Len(pat) <= Len(s) /\ SubSeq(s, i + 1, i + Len(pat)) = pat

\* str::find: the offset of the first occurrence, if any.
Find(s, pat) ==
    LET hits == {i \in 0..Len(s) : StartsAt(s, pat, i)} IN
    IF hits = {} THEN None
    ELSE Some(CHOOSE i \in hits : \A j \in hits : i <= j)

\* str::rfind: the offset of the last occurrence, if any.
RFind(s, pat) ==
    LET hits == {i \in 0..Len(s) : StartsAt(s, pat, i)} IN
    IF hits = {} THEN None
    ELSE Some(CHOOSE i \in hits : \A j \in hits : j <= i)

Whitespace == {" ", "\t", "\n", "\r"}

\* str::trim
RECURSIVE TrimStart(_)
TrimStart(s) ==
    IF s # <<>> /\ s[1] \in Whitespace THEN TrimStart(Tail(s)) ELSE s

RECURSIVE TrimEnd(_)
TrimEnd(s) ==
    IF s # <<>> /\ s[Len(s)] \in Whitespace
    THEN TrimEnd(SubSeq(s, 1, Len(s) - 1))
    ELSE s

Trim(s) == TrimEnd(TrimStart(s))

\* str::split on a one-character separator: the pieces, empty ones included.
RECURSIVE Split(_, _)
Split(s, sep) ==
    LET at == Find(s, <<sep>>) IN
    IF at = None THEN <<s>>
    ELSE <<Slice(s, 0, at[1])>> \o Split(Slice(s, at[1] + 1, Len(s)), sep)

\* str::lines: the pieces between line feeds, a carriage return before a
\* line feed dropped, and no last empty line.
StripCr(line) ==
    IF line # <<>> /\ line[Len(line)] = "\r"
    THEN SubSeq(line, 1, Len(line) - 1)
    ELSE line

Lines(s) ==
    LET pieces == Split(s, "\n")
        kept == IF pieces[Len(pieces)] = <<>>
                THEN SubSeq(pieces, 1, Len(pieces) - 1)
                ELSE pieces
    IN  [k \in 1..Len(kept) |->
            IF k < Len(pieces) THEN StripCr(kept[k]) ELSE kept[k]]

UpperCase == <<"A", "B", "C", "D", "E", "F", "G", "H", "I", "J", "K", "L", "M",
               "N", "O", "P", "Q", "R", "S", "T", "U", "V", "W", "X", "Y", "Z">>

LowerCase == <<"a", "b", "c", "d", "e", "f", "g", "h", "i", "j", "k", "l", "m",
               "n", "o", "p", "q", "r", "s", "t", "u", "v", "w", "x", "y", "z">>

ToAsciiLower(c) ==
    IF \E i \in 1..26 : UpperCase[i] = c
    THEN LowerCase[CHOOSE i \in 1..26 : UpperCase[i] = c]
    ELSE c

\* str::eq_ignore_ascii_case
EqIgnoreAsciiCase(s, t) ==
    /\ Len(s) = Len(t)
    /\ \A i \in 1..Len(s) : ToAsciiLower(s[i]) = ToAsciiLower(t[i])

----------------------------------------------------------------------------
(* MdFile::new *)

S_fence_open == <<"+", "+", "+", "\n">>
S_fence_close == <<"\n", "+", "+", "+">>
S_title == <<"t", "i", "t", "l", "e">>
S_category == <<"c", "a", "t", "e", "g", "o", "r", "y">>
S_tags == <<"t", "a", "g", "s">>
S_template == <<"t", "e", "m", "p", "l", "a", "t", "e">>
S_css == <<"c", "s", "s">>
S_md == <<"m", "d">>

\* HashMap: a function from the keys it holds; get gives an Option.
EmptyMap == [k \in {} |-> <<>>]

Insert(m, key, value) ==
    [k \in DOMAIN m \cup {key} |-> IF k = key THEN value ELSE m[k]]

Get(m, key) == IF key \in DOMAIN m THEN Some(m[key]) ELSE None

\* The loop over the lines, a key once inserted never overridden.
RECURSIVE MetaOfLines_KeepFirst(_, _)
MetaOfLines_KeepFirst(lines, n) ==
    IF n = 0 THEN EmptyMap
    ELSE LET meta == MetaOfLines_KeepFirst(lines, n - 1)
             line == lines[n]
             index == Find(line, <<"=">>)
         IN  IF Trim(line) = <<>> THEN meta
             ELSE IF index = None THEN meta
             ELSE IF Trim(Slice(line, 0, index[1])) \in DOMAIN meta THEN meta
             ELSE Insert(meta, Trim(Slice(line, 0, index[1])),
                         Trim(Slice(line, index[1] + 1, Len(line))))

\* The loop over the lines between the fences, through line n.
RECURSIVE MetaOfLines(_, _)
MetaOfLines(lines, n) ==
    IF n = 0 THEN EmptyMap
    ELSE LET meta == MetaOfLines(lines, n - 1)
             line == lines[n]
             index == Find(line, <<"=">>)
         IN  IF Trim(line) = <<>> THEN meta
             ELSE IF index = None THEN meta
             ELSE Insert(meta, Trim(Slice(line, 0, index[1])),
                         Trim(Slice(line, index[1] + 1, Len(line))))

\* The front matter of a file's contents: its metadata and the offset of the
\* markdown; panic when a slice of the contents is out of range.
FrontMatter(contents) ==
    IF Len(contents) < 4
    THEN [panic |-> TRUE, meta |-> EmptyMap, md_offset |-> 0]
    ELSE IF Slice(contents, 0, 4) = S_fence_open
    THEN LET found == Find(contents, S_fence_close) IN
         IF found # None
         THEN LET end_index == found[1] IN
              IF end_index < 4
              THEN [panic |-> TRUE, meta |-> EmptyMap, md_offset |-> end_index + 4]
              ELSE [panic |-> FALSE,
                    meta |-> LET lines == Lines(Slice(contents, 4, end_index))
                             IN  MetaOfLines(lines, Len(lines)),
                    md_offset |-> end_index + 4]
         ELSE [panic |-> FALSE, meta |-> EmptyMap, md_offset |-> Len(contents)]
    ELSE [panic |-> FALSE, meta |-> EmptyMap, md_offset |-> 0]

\* The components of a path written as a string: the pieces between `/`,
\* empty pieces and `.` left out as Path's comparison leaves them out.
PathComponents(s) ==
    LET pieces == Split(s, "/") IN
    LET RECURSIVE Keep(_)
        Keep(n) ==
            IF n = 0 THEN <<>>
            ELSE IF pieces[n] = <<>> \/ pieces[n] = Dot THEN Keep(n - 1)
            ELSE Append(Keep(n - 1), pieces[n])
    IN  Keep(Len(pieces))

\* The root directory `/`, first component of an absolute path.
RootDir == <<"/">>

\* PathBuf::push: an absolute path replaces, a relative one is appended.
Push(p, s) ==
    IF s # <<>> /\ s[1] = "/"
    THEN <<RootDir>> \o PathComponents(s)
    ELSE p \o PathComponents(s)

\* The template of a document: below the source root when its value starts
\* with `/`, else pushed onto the path of the document.
TemplatePath(src_root, path, s) ==
    IF s # <<>> /\ s[1] = "/"
    THEN Push(src_root, Slice(s, 1, Len(s)))
    ELSE Push(path, s)

\* MdFile::new, but for the dates of the file.
MdFileNew(src_root, path, contents) ==
    LET fm == FrontMatter(contents)
        meta == fm.meta
    IN  [panic |-> fm.panic,
         path |-> path,
         title |-> UnwrapOr(Get(meta, S_title), FileName(path)),
         category |-> Get(meta, S_category),
         tags |-> IF Get(meta, S_tags) = None THEN <<>>
                  ELSE LET parts == Split(meta[S_tags], ",")
                       IN  [k \in 1..Len(parts) |-> Trim(parts[k])],
         template |-> IF Get(meta, S_template) = None THEN None
                      ELSE Some(TemplatePath(src_root, path, meta[S_template])),
         meta |-> meta,
         md_offset |-> fm.md_offset]

----------------------------------------------------------------------------
(* Scan::new *)

\* The names read_dir gives for a directory.
Entries(f, dir) == {q[Len(q)] : q \in {x \in DOMAIN f : Parent(x) = dir}}

\* The extension Scan::new takes a file name to have: what follows its last
\* `.`, nothing when it has none.
ExtOf(filename) ==
    LET found == RFind(filename, <<".">>)
        ext_idx == IF found = None THEN Len(filename) ELSE found[1] + 1
    IN  Slice(filename, ext_idx, Len(filename))

\* Vec::retain with the closure of the second stage.
Retain(files, tpl) == SelectSeq(files, LAMBDA path : path \in tpl)

\* `while let Some(src) = pending.pop()` with a directory left: read it.
ScanPop ==
    /\ phase = "loop"
    /\ pending # <<>>
    /\ src' = pending[Len(pending)]
    /\ pending' = SubSeq(pending, 1, Len(pending) - 1)
    /\ todo' = Entries(fs, pending[Len(pending)])
    /\ visited' = Append(visited, pending[Len(pending)])
    /\ phase' = "dir"
    /\ UNCHANGED <<scan, templates>>
    /\ UNCHANGED execVars
    /\ UNCHANGED genVars
    /\ UNCHANGED mdVars
    /\ UNCHANGED loadVars

\* An entry that is a directory.
ScanEntryDir ==
    /\ phase = "dir"
    /\ \E name \in todo :
        LET path == Join(src, name) IN
        /\ DirAt(fs, path)
        /\ pending' = Append(pending, path)
        /\ scan' = [scan EXCEPT !.dirs_to_create = Append(@, path)]
        /\ todo' = todo \ {name}
    /\ UNCHANGED <<phase, templates, src, visited>>
    /\ UNCHANGED execVars
    /\ UNCHANGED genVars
    /\ UNCHANGED mdVars
    /\ UNCHANGED loadVars

\* An entry that is a file.
ScanEntryFile ==
    /\ phase = "dir"
    /\ \E filename \in todo :
        LET path == Join(src, filename)
            ext == ExtOf(filename)
            css == IF EqIgnoreAsciiCase(ext, S_css)
                   THEN Append(scan.css_files, path)
                   ELSE scan.css_files
            md == MdFileNew(scan.source, path, fs[path].content)
        IN
        /\ ~DirAt(fs, path)
        /\ todo' = todo \ {filename}
        /\ IF ~EqIgnoreAsciiCase(ext, S_md)
           THEN /\ scan' = [scan EXCEPT !.css_files = css,
                                        !.files_to_copy = Append(@, path)]
                /\ UNCHANGED <<templates, phase>>
           ELSE IF md.panic
           THEN /\ scan' = [scan EXCEPT !.css_files = css]
                /\ phase' = "panic"
                /\ UNCHANGED templates
           ELSE /\ templates' = (IF md.template # None
                                 THEN templates \cup {md.template[1]}
                                 ELSE templates)
                /\ scan' = [scan EXCEPT !.css_files = css,
                                        !.md_files = Append(@, md)]
                /\ UNCHANGED phase
    /\ UNCHANGED <<pending, src, visited>>
    /\ UNCHANGED execVars
    /\ UNCHANGED genVars
    /\ UNCHANGED mdVars
    /\ UNCHANGED loadVars

\* read_dir has given every entry.
ScanDirEnd ==
    /\ phase = "dir"
    /\ todo = {}
    /\ phase' = "loop"
    /\ UNCHANGED <<scan, templates, pending, src, todo, visited>>
    /\ UNCHANGED execVars
    /\ UNCHANGED genVars
    /\ UNCHANGED mdVars
    /\ UNCHANGED loadVars

\* The worklist is empty: the second stage, and Ok(scan).
ScanRetain ==
    /\ phase = "loop"
    /\ pending = <<>>
    /\ scan' = [scan EXCEPT !.files_to_copy = Retain(@, templates)]
    /\ phase' = "done"
    /\ UNCHANGED <<templates, pending, src, todo, visited>>
    /\ UNCHANGED execVars
    /\ UNCHANGED genVars
    /\ UNCHANGED mdVars
    /\ UNCHANGED loadVars

----------------------------------------------------------------------------
(* Source trees for Scan::new *)

N_sub == <<"s", "u", "b">>
N_t_html == <<"t", ".", "h", "t", "m", "l">>
N_s_css == <<"s", ".", "c", "s", "s">>
N_b_MD == <<"b", ".", "M", "D">>
N_x == <<"x">>

\* A document naming its template from the source root, one naming it
\* beside itself, and one naming none.
T_template_root == <<"+", "+", "+", "\n", "t", "e", "m", "p", "l", "a", "t", "e", " ", "=", " ", "/", "t", ".", "h", "t", "m", "l", "\n", "+", "+", "+", "\n", "A">>
T_template_near == <<"+", "+", "+", "\n", "t", "e", "m", "p", "l", "a", "t", "e", " ", "=", " ", "t", ".", "h", "t", "m", "l", "\n", "+", "+", "+", "\n", "B">>
T_title_only == <<"+", "+", "+", "\n", "t", "i", "t", "l", "e", " ", "=", " ", "C", "\n", "+", "+", "+", "\n", "C">>

\* A document with nothing in it.
T_empty == <<>>

MdTexts == {T_template_root, T_template_near, T_title_only, T_empty}

Other == FileNode(<<"b", "y", "t", "e", "s">>)

\* What may be in the directory sub of the source root.
SubTrees ==
    {EmptyFs}
    \cup {(<<N_content, N_sub>> :> DirNode) @@ b @@ t @@ x :
            b \in {EmptyFs} \cup {<<N_content, N_sub, N_b_MD>> :> FileNode(c) :
                                    c \in {T_template_root, T_template_near}},
            t \in {EmptyFs, <<N_content, N_sub, N_t_html>> :> Other},
            x \in {EmptyFs, <<N_content, N_sub, N_x>> :> Other}}

SourceTrees ==
    {(<<N_content>> :> DirNode) @@ a @@ t @@ c @@ sub :
        a \in {EmptyFs} \cup {<<N_content, N_a_md>> :> FileNode(text) :
                                text \in MdTexts},
        t \in {EmptyFs, <<N_content, N_t_html>> :> Other},
        c \in {EmptyFs, <<N_content, N_s_css>> :> Other},
        sub \in SubTrees}

\* Scan::new(content, dist) has made its Scan and its worklist.
InitScan ==
    /\ fs \in SourceTrees
    /\ fs0 = fs
    /\ fs1 = fs
    /\ actions = <<>>
    /\ pc = 1
    /\ result = "idle"
    /\ log = <<>>
    /\ blog = NoBlog
    /\ root = <<>>
    /\ run = 0
    /\ phase = "loop"
    /\ scan = NewScan(<<N_content>>, <<N_dist>>)
    /\ templates = {}
    /\ pending = <<<<N_content>>>>
    /\ src = <<>>
    /\ todo = {}
    /\ visited = <<>>
    /\ NoMd
    /\ NoLoad

NextScan == ScanPop \/ ScanEntryDir \/ ScanEntryFile \/ ScanDirEnd \/ ScanRetain

SpecScan == InitScan /\ [][NextScan]_vars

----------------------------------------------------------------------------
(* parse_opt_date *)

S_date == <<"d", "a", "t", "e">>
S_updated == <<"u", "p", "d", "a", "t", "e", "d">>

Digits == <<"0", "1", "2", "3", "4", "5", "6", "7", "8", "9">>

IsDigit(c) == \E i \in 1..10 : Digits[i] = c

DigitValue(c) == (CHOOSE i \in 1..10 : Digits[i] = c) - 1

\* The number a string of digits writes.
RECURSIVE Number(_)
Number(s) ==
    IF s = <<>> THEN 0
    ELSE 10 * Number(SubSeq(s, 1, Len(s) - 1)) + DigitValue(s[Len(s)])

IsLeapYear(y) == (y % 4 = 0 /\ y % 100 # 0) \/ y % 400 = 0

DaysInYear(y) == IF IsLeapYear(y) THEN 366 ELSE 365

DaysInMonth(y, m) ==
    IF m = 2 THEN (IF IsLeapYear(y) THEN 29 ELSE 28)
    ELSE IF m \in {4, 6, 9, 11} THEN 30 ELSE 31

\* parse_opt_date that asks the filesystem first.
ParseOptDate_FilesystemFirst(created, string, st, now) ==
    LET time == IF created THEN st.created ELSE st.modified IN
    [panic |-> FALSE,
     date |-> IF st.ok /\ time # None /\ time[1] >= 0
              THEN [year |-> 1970 + time[1] \div 31557600, month |-> 1,
                    day |-> 1]
              ELSE now,
     consulted |-> TRUE]

\* A NaiveDate.
Date(y, m, d) == [year |-> y, month |-> m, day |-> d]

\* NaiveDate::parse_from_str(s, DATE_FMT) with DATE_FMT = "%Y-%m-%d": a year
\* of up to four digits, a month and a day of up to two, that name a day of
\* the calendar, and nothing else.
ParseFromStr(s) ==
    LET pieces == Split(s, "-")
        AllDigits(w, max) ==
            /\ Len(w) \in 1..max
            /\ \A i \in 1..Len(w) : IsDigit(w[i])
    IN  IF /\ Len(pieces) = 3
           /\ AllDigits(pieces[1], 4)
           /\ AllDigits(pieces[2], 2)
           /\ AllDigits(pieces[3], 2)
        THEN LET y == Number(pieces[1])
                 m == Number(pieces[2])
                 d == Number(pieces[3])
             IN  IF m \in 1..12 /\ d \in 1..DaysInMonth(y, m)
                 THEN Some(Date(y, m, d))
                 ELSE None
        ELSE None

\* NaiveDateTime::from_timestamp(secs, 0).date(): the day of the calendar
\* that holds the second `secs` after the epoch, secs >= 0.
RECURSIVE DateFromDays(_, _, _)
DateFromDays(days, y, m) ==
    IF days >= DaysInYear(y) /\ m = 1
    THEN DateFromDays(days - DaysInYear(y), y + 1, 1)
    ELSE IF days >= DaysInMonth(y, m)
    THEN DateFromDays(days - DaysInMonth(y, m), y, m + 1)
    ELSE Date(y, m, days + 1)

FromTimestamp(secs) == DateFromDays(secs \div 86400, 1970, 1)

\* What the filesystem gives for a file: fs::metadata fails, or gives the
\* creation and modification times, each unavailable (None) or a SystemTime
\* in seconds from UNIX_EPOCH, negative when earlier.
NoMetadata == [ok |-> FALSE, created |-> None, modified |-> None]

Metadata(created, modified) ==
    [ok |-> TRUE, created |-> created, modified |-> modified]

\* parse_opt_date: the date returned, whether fs::metadata was called, and
\* panic when duration_since(UNIX_EPOCH).unwrap() is given an earlier time.
ParseOptDate(created, string, st, now) ==
    LET parsed == IF string = None THEN None ELSE ParseFromStr(string[1])
        time == IF created THEN st.created ELSE st.modified
    IN  IF parsed # None
        THEN [panic |-> FALSE, date |-> parsed[1], consulted |-> FALSE]
        ELSE IF ~st.ok
        THEN [panic |-> FALSE, date |-> now, consulted |-> TRUE]
        ELSE IF time = None
        THEN [panic |-> FALSE, date |-> now, consulted |-> TRUE]
        ELSE IF time[1] < 0
        THEN [panic |-> TRUE, date |-> now, consulted |-> TRUE]
        ELSE [panic |-> FALSE, date |-> FromTimestamp(time[1]),
              consulted |-> TRUE]

----------------------------------------------------------------------------
(* MdFile::new, step by step *)

\* contents read; the front matter is parsed.
MdFrontMatter ==
    /\ mdpc = "start"
    /\ LET fm == FrontMatter(mdtext) IN
       IF fm.panic
       THEN /\ mdpc' = "panic"
            /\ UNCHANGED mdfile
       ELSE /\ mdpc' = "date"
            /\ mdfile' = [meta |-> fm.meta, md_offset |-> fm.md_offset]
    /\ UNCHANGED <<mdpath, mdtext, stat, today, consulted>>
    /\ UNCHANGED execVars
    /\ UNCHANGED genVars
    /\ UNCHANGED scanVars
    /\ UNCHANGED loadVars

\* date: parse_opt_date(&path, true, meta.get("date"))
MdDate ==
    /\ mdpc = "date"
    /\ LET r == ParseOptDate(TRUE, Get(mdfile.meta, S_date), stat, today) IN
       /\ mdpc' = IF r.panic THEN "panic" ELSE "updated"
       /\ mdfile' = IF r.panic THEN mdfile
                    ELSE [meta |-> mdfile.meta, md_offset |-> mdfile.md_offset,
                          date |-> r.date]
       /\ consulted' = IF r.consulted THEN consulted \cup {"date"}
                       ELSE consulted
    /\ UNCHANGED <<mdpath, mdtext, stat, today>>
    /\ UNCHANGED execVars
    /\ UNCHANGED genVars
    /\ UNCHANGED scanVars
    /\ UNCHANGED loadVars

\* updated: parse_opt_date(&path, false, meta.get("updated"))
MdUpdated ==
    /\ mdpc = "updated"
    /\ LET r == ParseOptDate(FALSE, Get(mdfile.meta, S_updated), stat, today) IN
       /\ mdpc' = IF r.panic THEN "panic" ELSE "build"
       /\ mdfile' = IF r.panic THEN mdfile
                    ELSE [meta |-> mdfile.meta, md_offset |-> mdfile.md_offset,
                          date |-> mdfile.date, updated |-> r.date]
       /\ consulted' = IF r.consulted THEN consulted \cup {"updated"}
                       ELSE consulted
    /\ UNCHANGED <<mdpath, mdtext, stat, today>>
    /\ UNCHANGED execVars
    /\ UNCHANGED genVars
    /\ UNCHANGED scanVars
    /\ UNCHANGED loadVars

\* The other fields, and Ok(MdFile { .. }).
MdBuild ==
    /\ mdpc = "build"
    /\ LET f == MdFileNew(<<N_content>>, mdpath, mdtext) IN
       mdfile' = [path |-> f.path, title |-> f.title, date |-> mdfile.date,
                  updated |-> mdfile.updated, category |-> f.category,
                  tags |-> f.tags, template |-> f.template, meta |-> f.meta,
                  md_offset |-> f.md_offset]
    /\ mdpc' = "done"
    /\ UNCHANGED <<mdpath, mdtext, stat, today, consulted>>
    /\ UNCHANGED execVars
    /\ UNCHANGED genVars
    /\ UNCHANGED scanVars
    /\ UNCHANGED loadVars

----------------------------------------------------------------------------
(* Documents for MdFile::new *)

MaxLines == 2

L_title == <<"t", "i", "t", "l", "e", " ", "=", " ", "H", "e", "l", "l", "o">>
L_tags_gaps == <<"t", "a", "g", "s", " ", "=", " ", "a", ",", ",", " ", "b", " ", ",">>
L_tags_empty == <<"t", "a", "g", "s", " ", "=">>
L_date == <<"d", "a", "t", "e", " ", "=", " ", "2", "0", "0", "0", "-", "0", "2", "-", "2", "9">>
L_date_bad == <<"d", "a", "t", "e", " ", "=", " ", "2", "0", "0", "1", "-", "0", "2", "-", "2", "9">>
L_updated == <<"u", "p", "d", "a", "t", "e", "d", " ", "=", " ", "1", "9", "7", "0", "-", "0", "1", "-", "0", "2">>
L_template_root == <<"t", "e", "m", "p", "l", "a", "t", "e", " ", "=", " ", "/", "t", ".", "h", "t", "m", "l">>
L_template_near == <<"t", "e", "m", "p", "l", "a", "t", "e", " ", "=", " ", "t", ".", "h", "t", "m", "l">>
L_no_value == <<"n", "o", " ", "v", "a", "l", "u", "e">>
L_blank == <<>>
L_title_again == <<"t", "i", "t", "l", "e", "=", "A", " ", "=", " ", "B", " ">>

DocLines == {L_title, L_tags_gaps, L_tags_empty, L_date, L_date_bad, L_updated, L_template_root, L_template_near, L_no_value, L_blank, L_title_again}

S_body == <<"B", "o", "d", "y", " ", "t", "e", "x", "t">>

\* The lines of a sequence, each ended by a line feed.
RECURSIVE Unlines(_)
Unlines(ls) ==
    IF ls = <<>> THEN <<>> ELSE ls[1] \o <<"\n">> \o Unlines(Tail(ls))

LineLists == UNION {[1..n -> DocLines] : n \in 0..MaxLines}

\* A document: the opening fence, interior lines, then the closing fence
\* line and the body, or neither when the front matter is not closed.
Doc(ls, closed, body) ==
    S_fence_open \o Unlines(ls)
        \o (IF closed THEN <<"+", "+", "+", "\n">> \o body ELSE <<>>)

FencedDocs ==
    {Doc(ls, TRUE, body) : ls \in LineLists, body \in {<<>>, S_body}}

UnclosedDocs == {Doc(ls, FALSE, <<>>) : ls \in LineLists}

\* Documents that do not begin with the opening fence.
UnfencedDocs ==
    {<<>>, <<"H", "i">>, S_body, Unlines(<<L_title>>) \o S_body,
     <<"+", "+", "+">> \o S_body}

DocTexts == FencedDocs \cup UnclosedDocs \cup UnfencedDocs

\* fs::metadata fails; no time is available; a creation time before the
\* epoch; a modification time before the epoch; both times after it.
Stats ==
    {NoMetadata,
     Metadata(None, None),
     Metadata(Some(0 - 1), Some(86400)),
     Metadata(Some(951868800), Some(0 - 1)),
     Metadata(Some(951868800), Some(86400))}

\* MdFile::new(&scan.source, path) is called on a file of the source tree.
InitMd ==
    /\ fs = EmptyFs
    /\ fs0 = fs
    /\ fs1 = fs
    /\ actions = <<>>
    /\ pc = 1
    /\ result = "idle"
    /\ log = <<>>
    /\ blog = NoBlog
    /\ root = <<>>
    /\ run = 0
    /\ NoScan
    /\ mdpc = "start"
    /\ mdpath = <<N_content, N_sub, N_a_md>>
    /\ mdtext \in DocTexts
    /\ mdfile = NewMd
    /\ stat \in Stats
    /\ today = Date(2026, 11, 2)
    /\ consulted = {}
    /\ NoLoad

NextMd == MdFrontMatter \/ MdDate \/ MdUpdated \/ MdBuild

SpecMd == InitMd /\ [][NextMd]_vars

----------------------------------------------------------------------------
(* Blog::from_source_dir *)

\* The names HEADER_FILE_NAME and FOOTER_FILE_NAME stand for.
N_header == <<"HEADER_FILE_NAME">>
N_footer == <<"FOOTER_FILE_NAME">>

\* Post::from_source_file: the post of a source file, its markdown the
\* contents of the file.
PostFromSourceFile(f, path) ==
    [source |-> path, markdown |-> f[path].content, assets |-> <<>>]

\* fs::read_to_string
ReadToString(f, path) == IF FileAt(f, path) THEN Some(f[path].content) ELSE None

\* A child named HEADER_FILE_NAME: it is read into header, and makes no post.
LoadHeader ==
    /\ loadpc = "loop"
    /\ N_header \in children
    /\ LET read == ReadToString(fs, Join(SourceRoot, N_header)) IN
       IF read = None
       THEN /\ loadpc' = "err"
            /\ UNCHANGED <<blog, children>>
       ELSE /\ blog' = [blog EXCEPT !.header = Some(read[1])]
            /\ children' = children \ {N_header}
            /\ UNCHANGED loadpc
    /\ UNCHANGED <<root, run, fs1>>
    /\ UNCHANGED execVars
    /\ UNCHANGED scanVars
    /\ UNCHANGED mdVars

\* A child named FOOTER_FILE_NAME: it is read into footer, and makes no post.
LoadFooter ==
    /\ loadpc = "loop"
    /\ N_footer \in children
    /\ LET read == ReadToString(fs, Join(SourceRoot, N_footer)) IN
       IF read = None
       THEN /\ loadpc' = "err"
            /\ UNCHANGED <<blog, children>>
       ELSE /\ blog' = [blog EXCEPT !.footer = Some(read[1])]
            /\ children' = children \ {N_footer}
            /\ UNCHANGED loadpc
    /\ UNCHANGED <<root, run, fs1>>
    /\ UNCHANGED execVars
    /\ UNCHANGED scanVars
    /\ UNCHANGED mdVars

\* Any other child: a post is made of it.
LoadPost ==
    /\ loadpc = "loop"
    /\ \E name \in children \ {N_header, N_footer} :
        /\ blog' = [blog EXCEPT
                      !.posts = Append(@, PostFromSourceFile(fs, Join(SourceRoot, name)))]
        /\ children' = children \ {name}
    /\ UNCHANGED <<loadpc, root, run, fs1>>
    /\ UNCHANGED execVars
    /\ UNCHANGED scanVars
    /\ UNCHANGED mdVars

\* read_dir has given every child: Ok(Self { posts, header, footer }).
LoadReturn ==
    /\ loadpc = "loop"
    /\ children = {}
    /\ loadpc' = "done"
    /\ UNCHANGED <<children, blog, root, run, fs1>>
    /\ UNCHANGED execVars
    /\ UNCHANGED scanVars
    /\ UNCHANGED mdVars

\* Source directories: the header file (or a directory of its name), the
\* footer file and two documents, each there or not.
LoadTrees ==
    {(SourceRoot :> DirNode) @@ h @@ f @@ a @@ b :
        h \in {EmptyFs, Join(SourceRoot, N_header) :> FileNode(<<"<header/>">>),
               Join(SourceRoot, N_header) :> DirNode},
        f \in {EmptyFs, Join(SourceRoot, N_footer) :> FileNode(<<"<footer/>">>)},
        a \in {EmptyFs, Join(SourceRoot, N_a_md) :> FileNode(<<"A test post">>)},
        b \in {EmptyFs, Join(SourceRoot, N_b_md) :> FileNode(<<"A third post">>)}}

\* Blog::from_source_dir(content) has its locals and the directory's
\* children; the Blog it returns is then planned for the root.
InitLoad ==
    /\ root \in Roots
    /\ fs \in LoadTrees
    /\ blog = NoBlog
    /\ fs0 = fs
    /\ fs1 = fs
    /\ actions = <<>>
    /\ pc = 1
    /\ result = "idle"
    /\ log = <<>>
    /\ run = 0
    /\ NoScan
    /\ NoMd
    /\ loadpc = "loop"
    /\ children = Entries(fs, SourceRoot)

NextLoad == LoadHeader \/ LoadFooter \/ LoadPost \/ LoadReturn \/ Generate

SpecLoad == InitLoad /\ [][NextLoad]_vars

----------------------------------------------------------------------------
(* Claims about the executor, under Spec *)

\* The arm of an action, by its type.
ArmOf(a, f) ==
    CASE a.type = "Copy" -> ArmCopy(a, f)
      [] a.type = "DeleteDir" -> ArmDeleteDir(a, f)
      [] a.type = "CreateDir" -> ArmCreateDir(a, f)
      [] a.type = "WriteFile" -> ArmWriteFile(a, f)

\* The tree after the arms of the first n actions of a list, in order.
RECURSIVE AfterPrefix(_, _, _)
AfterPrefix(f, as, n) ==
    IF n = 0 THEN f ELSE ArmOf(as[n], AfterPrefix(f, as, n - 1)).fs

\* The iteration just made ended without an error / with the error returned.
Succeeded == log # <<>> /\ log[Len(log)] = "ok" /\ result # "err"

Failed == log # <<>> /\ log[Len(log)] = "err" /\ result = "err"

\* f2 is f1 with path p made the given node and nothing else touched.
OnlyPut(f1, f2, p, node) ==
    /\ DOMAIN f2 = DOMAIN f1 \cup {p}
    /\ f2[p] = node
    /\ \A q \in DOMAIN f1 \ {p} : f2[q] = f1[q]

\* C3 (the claim as stated): a DeleteDir on a path that does not exist fails
\* if and only if not_exists_ok is false; with not_exists_ok it succeeds,
\* leaves the tree unchanged and the loop goes on to the next action.
C3_DeleteMissingFailsIffNotAllowed ==
    [][(AtAction("DeleteDir") /\ ~Exists(fs, actions[pc].path)) =>
         /\ Failed' <=> ~actions[pc].not_exists_ok
         /\ actions[pc].not_exists_ok =>
              (Succeeded' /\ fs' = fs /\ result' = "running" /\ pc' = pc + 1)
      ]_vars

\* C4 (the claim as stated): an Ok result means that the loop went through
\* every action of the list, none skipped and none failed.
C4_OkMeansAllApplied ==
    result = "ok" =>
        /\ Len(log) = Len(actions)
        /\ \A k \in 1..Len(log) : log[k] = "ok"
        /\ fs = AfterPrefix(fs0, actions, Len(actions))

\* C5 (the claim as stated): when the executor returns a failure, it is at
\* the first action whose arm fails, and the tree is the initial tree with
\* exactly the actions before it applied, in order: the failing action
\* changed nothing.
C5_FailureLeavesExactPrefix ==
    result = "err" =>
        /\ pc \in 1..Len(actions)
        /\ log = [k \in 1..pc |-> IF k < pc THEN "ok" ELSE "err"]
        /\ fs = AfterPrefix(fs0, actions, pc - 1)

\* C5 (amended): as above, except that a failing recursive DeleteDir of an
\* existing directory (remove_dir_all on a path ending in `.` or `..`) has
\* removed all that was below the directory before it failed.
C5_FailureLeavesPrefix ==
    result = "err" =>
        /\ pc \in 1..Len(actions)
        /\ log = [k \in 1..pc |-> IF k < pc THEN "ok" ELSE "err"]
        /\ LET a == actions[pc]
               before == AfterPrefix(fs0, actions, pc - 1)
               k == Resolve(before, a.path).at
           IN  IF a.type = "DeleteDir" /\ a.recursive /\ IsDir(before, a.path)
               THEN fs = [q \in {x \in DOMAIN before : ~IsProperPrefix(k, x)}
                            |-> before[q]]
               ELSE fs = before

\* A failure at the second action, after a first action that changed the tree.
C5_Witness ==
    /\ result = "err"
    /\ pc = 2
    /\ fs # fs0
    /\ Len(actions) = 2

\* C6: the cases of CreateDir(path, exists_ok).
C6_CreateDirCases ==
    [][AtAction("CreateDir") =>
         LET a == actions[pc]
             p == a.path
         IN  /\ (a.exists_ok /\ IsDir(fs, p)) => (Succeeded' /\ fs' = fs)
             /\ (Exists(fs, p) /\ ~IsDir(fs, p)) => Failed'
             /\ (~a.exists_ok /\ Exists(fs, p)) => Failed'
             /\ (~Exists(fs, p) /\ IsDir(fs, Parent(p))) =>
                    (Succeeded' /\ OnlyPut(fs, fs', p, DirNode))
             /\ ~Exists(fs, Parent(p)) =>
                    (Failed' /\ ~Exists(fs', Parent(p)))
             /\ IsFile(fs, Parent(p)) => Failed'
             /\ Failed' => fs' = fs
      ]_vars

\* A CreateDir made a directory that was not there, below an existing parent
\* that the tree began with.
C6_Witness ==
    /\ pc = 2
    /\ actions[1].type = "CreateDir"
    /\ Len(actions[1].path) = 2
    /\ ~Exists(fs0, actions[1].path)
    /\ IsDir(fs, actions[1].path)
    /\ log = <<"ok">>

\* C7 (the claim as stated): WriteFile fails if the path is a directory and
\* otherwise succeeds, leaving a regular file holding exactly the content.
C7_WriteFileSucceedsUnlessDir ==
    [][AtAction("WriteFile") =>
         LET a == actions[pc]
             p == a.path
         IN  /\ IsDir(fs, p) => (Failed' /\ fs' = fs)
             /\ ~IsDir(fs, p) =>
                    (Succeeded' /\ OnlyPut(fs, fs', p, FileNode(a.content)))
      ]_vars

\* C7 (amended): WriteFile fails, tree unchanged, if the path is a directory
\* or if the path does not exist and its parent is not an existing directory;
\* otherwise it succeeds, leaving a regular file holding exactly the content.
C7_WriteFileCases ==
    [][AtAction("WriteFile") =>
         LET a == actions[pc]
             p == a.path
             refused == IsDir(fs, p) \/ (~Exists(fs, p) /\ ~IsDir(fs, Parent(p)))
         IN  /\ refused => (Failed' /\ fs' = fs)
             /\ ~refused =>
                    (Succeeded' /\ OnlyPut(fs, fs', p, FileNode(a.content)))
      ]_vars

\* A WriteFile replaced a file that held something else.
C7_Witness ==
    /\ pc = 2
    /\ log = <<"ok">>
    /\ actions[1].type = "WriteFile"
    /\ IsFile(fs0, actions[1].path)
    /\ fs0[actions[1].path].content # actions[1].content
    /\ fs[actions[1].path] = FileNode(actions[1].content)

----------------------------------------------------------------------------
(* Claims about the planner and Blog::generate, under SpecGen *)

Planned == result # "idle"

\* How many actions the posts before post i account for.
RECURSIVE Offset(_, _)
Offset(b, i) ==
    IF i = 1 THEN 0
    ELSE Offset(b, i - 1) + 3 + Len(b.posts[i - 1].assets)

Contains(text, part) ==
    \E i \in 0..(Len(text) - Len(part)) : SubSeq(text, i + 1, i + Len(part)) = part

\* C1: the plan is, post after post in the order of the posts, the block
\* DeleteDir(root/stem, not_exists_ok, recursive), CreateDir(root/stem, not
\* exists_ok), WriteFile(root/stem/index.html, a content holding the post's
\* body), then one Copy per asset, in the order of the assets, to
\* root/stem/<asset file name>: 3 + (number of assets) actions a post.
C1_PlanShape ==
    Planned =>
        /\ Len(actions) = Offset(blog, Len(blog.posts) + 1)
        /\ \A i \in 1..Len(blog.posts) :
              LET post == blog.posts[i]
                  o == Offset(blog, i)
                  dir == Append(root, FileStem(post.source))
              IN  /\ actions[o + 1] = DeleteDir(dir, TRUE, TRUE)
                  /\ actions[o + 2] = CreateDir(dir, FALSE)
                  /\ actions[o + 3].type = "WriteFile"
                  /\ actions[o + 3].path = Append(dir, N_index_html)
                  /\ Contains(actions[o + 3].content, post.markdown)
                  /\ \A k \in 1..Len(post.assets) :
                        actions[o + 3 + k] =
                            Copy(post.assets[k],
                                 Append(dir, FileName(post.assets[k])))

\* The plan for content/a.md with the assets j.png and i.png, then
\* content/b.md with no asset, into dist: 5 actions, then exactly the 3
\* actions DeleteDir, CreateDir, WriteFile of dist/b.
C1_Witness ==
    /\ Planned
    /\ root = <<N_dist>>
    /\ Len(blog.posts) = 2
    /\ blog.posts[1].source = <<N_content, N_a_md>>
    /\ blog.posts[1].assets = <<<<N_content, N_j_png>>, <<N_content, N_i_png>>>>
    /\ blog.posts[2].source = <<N_content, N_b_md>>
    /\ blog.posts[2].assets = <<>>
    /\ Len(actions) = 8
    /\ actions[4] = Copy(<<N_content, N_j_png>>, <<N_dist, <<"a">>, N_j_png>>)
    /\ actions[6] = [type |-> "DeleteDir", path |-> <<N_dist, <<"b">>>>,
                     not_exists_ok |-> TRUE, recursive |-> TRUE]
    /\ actions[7] = [type |-> "CreateDir", path |-> <<N_dist, <<"b">>>>,
                     exists_ok |-> FALSE]
    /\ actions[8].type = "WriteFile"
    /\ actions[8].path = <<N_dist, <<"b">>, N_index_html>>

\* C2: when generate has returned Ok once, generating again from the tree it
\* left also returns Ok and leaves the very same tree.
C2_SecondRunSame ==
    (run = 2 /\ result # "running") => (result = "ok" /\ fs = fs1)

\* A second generation of two posts, one with assets, has ended.
C2_Witness ==
    /\ run = 2
    /\ result = "ok"
    /\ Len(blog.posts) = 2
    /\ \E i \in 1..2 : Len(blog.posts[i].assets) = 2
    /\ \A i \in 1..2 :
          IsFile(fs, Append(Append(root, FileStem(blog.posts[i].source)),
                            N_index_html))

\* The path an action deletes, creates or writes.
Touched(a) == IF a.type = "Copy" THEN a.dest ELSE a.path

\* The place a path names, its `.` and `..` components followed.
RECURSIVE Clean(_)
Clean(p) ==
    IF p = <<>> THEN <<>>
    ELSE LET front == Clean(SubSeq(p, 1, Len(p) - 1))
             last == p[Len(p)]
         IN  IF last = Dot THEN front
             ELSE IF last = DotDot THEN SubSeq(front, 1, Len(front) - 1)
             ELSE Append(front, last)

\* C9 (the claim as stated): every path a planned action deletes, creates or
\* writes names a place strictly inside the destination root, never the root
\* itself or a place outside it, and no Copy source is such a place or lies
\* below one.
C9_WritesInsideRoot ==
    Planned =>
        \A i \in 1..Len(actions) :
            /\ IsProperPrefix(Clean(root), Clean(Touched(actions[i])))
            /\ actions[i].type = "Copy" =>
                  \A j \in 1..Len(actions) :
                      ~IsPrefix(Clean(Touched(actions[j])),
                                Clean(actions[i].source))

\* C10 (the claim as stated): posts from pairwise distinct source files get
\* pairwise distinct destination directories, and after a generation that
\* returned Ok every post's index.html holds that post's body.
C10_DestinationsDisjoint ==
    /\ Planned =>
          \A i, j \in 1..Len(blog.posts) :
              (i # j /\ blog.posts[i].source # blog.posts[j].source) =>
                  actions[Offset(blog, i) + 1].path
                      # actions[Offset(blog, j) + 1].path
    /\ result = "ok" =>
          \A i \in 1..Len(blog.posts) :
              LET index == Append(actions[Offset(blog, i) + 1].path, N_index_html)
              IN  IsFile(fs, index) /\ Contains(fs[index].content, blog.posts[i].markdown)

----------------------------------------------------------------------------
(* Claims about Scan::new, under SpecScan *)

\* The template paths the documents of the scan name.
Referenced ==
    {scan.md_files[i].template[1] :
        i \in {j \in 1..Len(scan.md_files) : scan.md_files[j].template # None}}

Elements(seq) == {seq[i] : i \in 1..Len(seq)}

\* The files of the source tree.
SourceFiles == {q \in DOMAIN fs : FileAt(fs, q)}

IsDocument(path) == EqIgnoreAsciiCase(ExtOf(FileName(path)), S_md)

\* C8 (the claim as stated): when Scan::new has returned, files_to_copy holds
\* no path that a document names as its template and no document, and holds
\* every other file of the tree.
C8_CopyListWithoutTemplates ==
    phase = "done" =>
        /\ \A path \in Elements(scan.files_to_copy) :
              path \notin Referenced /\ ~IsDocument(path)
        /\ \A path \in SourceFiles :
              (path \notin Referenced /\ ~IsDocument(path)) =>
                  path \in Elements(scan.files_to_copy)

----------------------------------------------------------------------------
(* More claims about Scan::new, under SpecScan *)

\* C18 (the claim as stated): when Scan::new has returned, html_templates
\* holds exactly one template for each path some document names as its
\* template.
C18_OneTemplatePerPath ==
    phase = "done" =>
        /\ {t.path : t \in scan.html_templates} = {Some(p) : p \in Referenced}
        /\ Cardinality(scan.html_templates) = Cardinality(Referenced)

\* How many times x is in a sequence.
Count(seq, x) == Cardinality({i \in 1..Len(seq) : seq[i] = x})

\* The directories of the source tree.
SourceDirs == {q \in DOMAIN fs : DirAt(fs, q) /\ IsPrefix(scan.source, q)}

\* The paths of the documents parsed.
MdPaths == [i \in 1..Len(scan.md_files) |-> scan.md_files[i].path]

\* C19 (the claim as stated): Scan::new does not abort, and when its
\* worklist is empty it has read every directory of the tree exactly once,
\* dirs_to_create holds every directory strictly below the root exactly once
\* and not the root, and every file has been classified exactly once.
C19_EveryDirectoryReadOnce ==
    /\ phase # "panic"
    /\ (phase = "loop" /\ pending = <<>>) =>
          /\ \A dir \in SourceDirs : Count(visited, dir) = 1
          /\ \A dir \in SourceDirs \ {scan.source} :
                Count(scan.dirs_to_create, dir) = 1
          /\ Count(scan.dirs_to_create, scan.source) = 0
          /\ \A path \in SourceFiles :
                Count(scan.files_to_copy, path) + Count(MdPaths, path) = 1

\* The file that the step being taken classifies.
Classified(path) ==
    /\ ScanEntryFile
    /\ FileName(path) \in todo \ todo'
    /\ path = Join(src, FileName(path))

\* C20 (the claim as stated): in the first pass a file whose extension is
\* `md` in any letter case becomes one document and no copy candidate, one
\* whose extension is `css` becomes a style sheet and a copy candidate, and
\* any other a copy candidate only.
C20_ClassifiedByExtension ==
    [][\A path \in SourceFiles : Classified(path) =>
          LET ext == ExtOf(FileName(path)) IN
          IF EqIgnoreAsciiCase(ext, S_md)
          THEN /\ Len(scan'.md_files) = Len(scan.md_files) + 1
               /\ scan'.md_files[Len(scan'.md_files)].path = path
               /\ scan'.files_to_copy = scan.files_to_copy
               /\ scan'.css_files = scan.css_files
          ELSE IF EqIgnoreAsciiCase(ext, S_css)
          THEN /\ scan'.css_files = Append(scan.css_files, path)
               /\ scan'.files_to_copy = Append(scan.files_to_copy, path)
               /\ scan'.md_files = scan.md_files
          ELSE /\ scan'.files_to_copy = Append(scan.files_to_copy, path)
               /\ scan'.css_files = scan.css_files
               /\ scan'.md_files = scan.md_files]_vars

----------------------------------------------------------------------------
(* Claims about MdFile::new and parse_opt_date, under SpecMd *)

\* The text of a document from its offset on.
BodyFrom(offset) == Slice(mdtext, offset, Len(mdtext))

\* C11 (the claim as stated): on a document made of the opening fence,
\* interior lines, a closing fence line and a body, the front-matter parse
\* does not fail, returns the key/value pairs of the interior lines, and a
\* body offset from which the text is exactly the body.
C11_FencedFrontMatter ==
    [][\A ls \in LineLists : \A body \in {<<>>, S_body} :
          (MdFrontMatter /\ mdtext = Doc(ls, TRUE, body)) =>
              /\ mdpc' = "date"
              /\ mdfile'.meta = MetaOfLines(ls, Len(ls))
              /\ BodyFrom(mdfile'.md_offset) = body]_vars

\* C12 (the claim as stated): on a document that does not begin with the
\* opening fence line, the empty one and those shorter than the fence
\* included, the parse gives empty metadata and body offset 0, and MdFile::new
\* goes on.
C12_UnfencedDegrades ==
    [][(MdFrontMatter /\ mdtext \in UnfencedDocs) =>
          /\ mdpc' = "date"
          /\ mdfile'.meta = EmptyMap
          /\ mdfile'.md_offset = 0]_vars

\* C13 (the claim as stated): on a document that begins with the opening
\* fence and has no closing fence, every `key = value` line after the fence
\* is in the metadata and the body is empty.
C13_UnclosedIsAllMetadata ==
    [][\A ls \in LineLists :
          (MdFrontMatter /\ mdtext = Doc(ls, FALSE, <<>>)) =>
              /\ mdpc' = "date"
              /\ mdfile'.meta = MetaOfLines(ls, Len(ls))
              /\ mdfile'.md_offset = Len(mdtext)]_vars

\* C14 (the claim as stated): the tag list of a document with a `tags` field
\* holds no empty tag, and every tag is its own trimmed form.
C14_TagsTrimmedAndNonEmpty ==
    (mdpc = "done" /\ S_tags \in DOMAIN mdfile.meta) =>
        \A k \in 1..Len(mdfile.tags) :
            /\ mdfile.tags[k] # <<>>
            /\ Trim(mdfile.tags[k]) = mdfile.tags[k]

\* The value a document declares for a key, when it parses as a date.
Declared(key) ==
    IF key \in DOMAIN mdfile.meta THEN ParseFromStr(mdfile.meta[key]) ELSE None

\* C15: a declared `date` (resp. `updated`) that parses is the date resolved,
\* whatever fs::metadata would give, and the filesystem is asked only when
\* the declared value is absent or does not parse.
C15_DeclaredDateWins ==
    [][/\ (MdDate /\ Declared(S_date) # None) =>
              /\ mdpc' = "updated"
              /\ mdfile'.date = Declared(S_date)[1]
              /\ consulted' = consulted
       /\ (MdUpdated /\ Declared(S_updated) # None) =>
              /\ mdpc' = "build"
              /\ mdfile'.updated = Declared(S_updated)[1]
              /\ consulted' = consulted
       /\ (MdDate /\ "date" \in consulted') => Declared(S_date) = None
       /\ (MdUpdated /\ "updated" \in consulted') => Declared(S_updated) = None
      ]_vars

\* A document declaring 2000-02-29 and 1970-01-02 was given those two dates
\* though the file's times are 2000-03-01 and 1970-01-02, and another was
\* given the declared creation date with no metadata to be had.
C15_Witness ==
    /\ mdpc = "done"
    /\ mdfile.meta = (S_date :> <<"2", "0", "0", "0", "-", "0", "2", "-", "2", "9">>)
                     @@ (S_updated :> <<"1", "9", "7", "0", "-", "0", "1", "-", "0", "2">>)
    /\ mdfile.date = Date(2000, 2, 29)
    /\ mdfile.updated = Date(1970, 1, 2)
    /\ stat = Metadata(Some(951868800), Some(0 - 1))
    /\ consulted = {}

\* The date the claim says parse_opt_date returns: the declared one when it
\* parses, else that of the file's time when there is one, else today's.
ResolvedDate(key, time) ==
    IF Declared(key) # None THEN {Declared(key)[1]}
    ELSE IF stat.ok /\ time # None
    THEN (IF time[1] >= 0 THEN {FromTimestamp(time[1])}
          ELSE {Date(y, m, d) : y \in 1969..1970, m \in 1..12, d \in 1..31})
    ELSE {today}

\* C16 (the claim as stated): parse_opt_date always returns a date, never
\* aborting MdFile::new: the declared one, else the filesystem's, else
\* today's.
C16_DateResolutionTotal ==
    [][/\ MdDate =>
              /\ mdpc' = "updated"
              /\ mdfile'.date \in ResolvedDate(S_date, stat.created)
       /\ MdUpdated =>
              /\ mdpc' = "build"
              /\ mdfile'.updated \in ResolvedDate(S_updated, stat.modified)
      ]_vars

\* C17 (the claim as stated): a template value starting with `/` is taken
\* from the source root, any other from the directory holding the document.
C17_TemplateRelativeToDirectory ==
    (mdpc = "done" /\ S_template \in DOMAIN mdfile.meta) =>
        LET s == mdfile.meta[S_template] IN
        mdfile.template =
            IF s[1] = "/"
            THEN Some(<<N_content>> \o PathComponents(Slice(s, 1, Len(s))))
            ELSE Some(Parent(mdpath) \o PathComponents(s))

----------------------------------------------------------------------------
(* Claims about Blog::from_source_dir and the planner, under SpecLoad *)

\* What the source directory gives for a fragment: the contents of its
\* file, nothing when there is no such file.
Fragment(name) ==
    IF FileAt(fs, Join(SourceRoot, name))
    THEN fs[Join(SourceRoot, name)].content
    ELSE <<>>

\* C21: the content written for every post is the fixed prefix, the header,
\* the rendered body, the footer and the fixed suffix, in that order, with the
\* one header and footer of the source directory (nothing when absent), and
\* no post is made of the header file or the footer file.
C21_ContentIsShellAroundBody ==
    /\ \A i \in 1..Len(blog.posts) :
          FileName(blog.posts[i].source) \notin {N_header, N_footer}
    /\ Planned =>
          /\ Len(actions) = 3 * Len(blog.posts)
          /\ \A i \in 1..Len(blog.posts) :
                /\ actions[3 * i].type = "WriteFile"
                /\ actions[3 * i].content =
                      HTML_START \o Fragment(N_header)
                          \o PushHtml(blog.posts[i], <<>>)
                          \o Fragment(N_footer) \o HTML_END

\* Two posts planned from a directory with a header file and no footer file.
C21_Witness ==
    /\ Planned
    /\ loadpc = "done"
    /\ Len(blog.posts) = 2
    /\ blog.header = Some(<<"<header/>">>)
    /\ blog.footer = None
    /\ FileAt(fs, Join(SourceRoot, N_header))
    /\ ~Exists(fs, Join(SourceRoot, N_footer))
    /\ actions[3].content # actions[6].content

----------------------------------------------------------------------------
(* The metadata lines, under SpecMd *)

\* A line that gives a pair: not blank, and with a `=` in it.
WellFormed(line) ==
    Trim(line) # <<>> /\ \E i \in 1..Len(line) : line[i] = "="

\* Where the first `=` of a line is.
FirstEquals(line) ==
    CHOOSE i \in 1..Len(line) :
        line[i] = "=" /\ \A j \in 1..(i - 1) : line[j] # "="

KeyOf(line) == Trim(SubSeq(line, 1, FirstEquals(line) - 1))

ValueOf(line) == Trim(SubSeq(line, FirstEquals(line) + 1, Len(line)))

\* The pairs of the well-formed lines, the last line of a key giving its
\* value.
ExpectedMeta(ls) ==
    LET good == {k \in 1..Len(ls) : WellFormed(ls[k])}
        LastOf(key) ==
            CHOOSE k \in good :
                /\ KeyOf(ls[k]) = key
                /\ \A j \in good : KeyOf(ls[j]) = key => j <= k
    IN  [key \in {KeyOf(ls[k]) : k \in good} |-> ValueOf(ls[LastOf(key)])]

\* C22: in a fenced front matter with interior lines, blank lines and lines
\* without `=` add nothing and do not stop the parse, every other line is
\* split at its first `=` into a trimmed key and a trimmed value, and the
\* metadata is exactly these pairs, a later line overriding an earlier one
\* of the same key.
C22_LinesHandledIndependently ==
    [][\A ls \in LineLists \ {<<>>} : \A body \in {<<>>, S_body} :
          (MdFrontMatter /\ mdtext = Doc(ls, TRUE, body)) =>
              /\ mdpc' = "date"
              /\ mdfile'.meta = ExpectedMeta(ls)]_vars

\* `title = Hello` then `title=A = B `: the one pair title, A = B.
C22_Witness ==
    /\ mdpc = "date"
    /\ mdtext = Doc(<<L_title, L_title_again>>, TRUE, S_body)
    /\ mdfile.meta = (S_title :> <<"A", " ", "=", " ", "B">>)

====
